---------------------------- MODULE Spec2Model ----------------------------
(***************************************************************************)
(* Model of the Knots backend (TilinHub/Knots): the Dubins path            *)
(* calculator (backend/app/dubins_paths.py) and the two POST handlers of   *)
(* backend/app/app.py.                                                     *)
(*                                                                         *)
(* The service is stateless: a state of the model is one request in flight *)
(* and the response the handler produced for it.  Init draws the request   *)
(* from bounded sets; one action per handler computes the response.        *)
(*                                                                         *)
(* Numbers.  Lengths and coordinates of the path engine are fixed-point    *)
(* numbers with Scale units per 1.0 (the code uses IEEE doubles).  A       *)
(* heading theta is a count q of quarter turns (theta = q * pi / 2), for   *)
(* which sin and cos are exactly -1, 0 or 1 at this resolution.  Envelope  *)
(* coordinates are plain integers.                                         *)
(***************************************************************************)
EXTENDS Integers, Sequences, FiniteSets

VARIABLES request, response

vars == <<request, response>>

---------------------------------------------------------------------------
(* Resolution and bounds *)

\* fixed-point units per 1.0
Scale == 10^3

\* np.pi at the model's resolution (round(pi * Scale))
PI == 3142

\* Python's float ** 2 raises OverflowError when the result exceeds the
\* largest double; SQRT_FLOAT_MAX stands for sqrt(sys.float_info.max), scaled
\* down so that the squares stay within 32-bit integers.
SQRT_FLOAT_MAX == 30000

\* a coordinate whose square overflows (1e200 in the code's terms)
Huge == SQRT_FLOAT_MAX + 20 * Scale

\* request coordinates are multiples of 4.0 up to 4.0 * MaxX (resp. MaxY)
MaxX == 1
MaxY == 1

\* min_radius ranges over -1.0, 0.0, 1.0 .. MaxRadius
MaxRadius == 2

\* envelope requests carry at most MaxDisks disks, centres on 0..MaxCentre
MaxDisks == 3
MaxCentre == 2

\* the y for which RSR and LSR have equal length from (0,0,0) to (0,y,pi)
\* with R = 1.0: (2 - y) + 2 = y + pi, i.e. y = (4 - pi) / 2
TieY == (4 * Scale - PI) \div 2

---------------------------------------------------------------------------
(* Values *)

Abs(n) == IF n < 0 THEN -n ELSE n

Pose2D(x, y, theta) == [x |-> x, y |-> y, theta |-> theta]

\* Optional[DubinsPath]: Python's None
None == [path_type |-> "None"]

\* an exception escaping compute_optimal_path
Raised == [path_type |-> "OverflowError"]

\* the sentinel distance() yields where the code raises OverflowError
OverflowError == -1

DubinsPath(path_type, total_length, start, end) ==
    [path_type |-> path_type, segments |-> <<>>, total_length |-> total_length,
     start_pose |-> start, end_pose |-> end]

Families == {"LSL", "RSR", "LSR", "RSL", "LRL", "RLR"}

NoResponse == [status |-> 0]

HTTPException(status_code, detail) == [status |-> status_code, detail |-> detail]

---------------------------------------------------------------------------
(* dubins_paths.py: geometry primitives *)

np_sin(q) == CASE q = 0 -> 0 [] q = 1 -> 1 [] q = 2 -> 0 [] q = -1 -> -1

np_cos(q) == CASE q = 0 -> 1 [] q = 1 -> 0 [] q = 2 -> -1 [] q = -1 -> 0

RECURSIVE SqrtSearch(_, _, _)
SqrtSearch(n, lo, hi) ==
    IF lo >= hi THEN lo
    ELSE LET mid == (lo + hi + 1) \div 2
         IN  IF mid * mid <= n THEN SqrtSearch(n, mid, hi)
             ELSE SqrtSearch(n, lo, mid - 1)

\* square root rounded to the nearest unit
np_sqrt(n) ==
    LET r == SqrtSearch(n, 0, 46340)
    IN  IF n - r * r > r THEN r + 1 ELSE r

distance(p1, p2) ==
    LET dx == p2.x - p1.x
        dy == p2.y - p1.y
    IN  IF Abs(dx) > SQRT_FLOAT_MAX \/ Abs(dy) > SQRT_FLOAT_MAX
        THEN OverflowError
        ELSE np_sqrt(dx * dx + dy * dy)

left_circle_center(R, pose) ==
    Pose2D(pose.x + R * np_sin(pose.theta), pose.y - R * np_cos(pose.theta), 0)

right_circle_center(R, pose) ==
    Pose2D(pose.x - R * np_sin(pose.theta), pose.y + R * np_cos(pose.theta), 0)

---------------------------------------------------------------------------
(* dubins_paths.py: the six family synthesizers.  Each body runs inside    *)
(* try/except: an exception raised by distance() makes the family None.    *)

\* compute_lsl with the rejection written d >= 4R
compute_lsl_reject_at_4R(R, start, end) ==
    LET d == distance(left_circle_center(R, start), left_circle_center(R, end))
    IN  IF d = OverflowError THEN None
        ELSE IF d >= 4 * R THEN None
        ELSE DubinsPath("LSL", d + 2 * R, start, end)

compute_lsl(R, start, end) ==
    LET d == distance(left_circle_center(R, start), left_circle_center(R, end))
    IN  IF d = OverflowError THEN None
        ELSE IF d > 4 * R THEN None
        ELSE DubinsPath("LSL", d + 2 * R, start, end)

compute_rsr(R, start, end) ==
    LET d == distance(right_circle_center(R, start), right_circle_center(R, end))
    IN  IF d = OverflowError THEN None
        ELSE IF d > 4 * R THEN None
        ELSE DubinsPath("RSR", d + 2 * R, start, end)

compute_lsr(R, start, end) ==
    LET d == distance(start, end)
    IN  IF d = OverflowError THEN None
        ELSE DubinsPath("LSR", d + (PI * R) \div Scale, start, end)

compute_rsl(R, start, end) ==
    LET d == distance(start, end)
    IN  IF d = OverflowError THEN None
        ELSE DubinsPath("RSL", d + (PI * R) \div Scale, start, end)

compute_lrl(R, start, end) ==
    LET d == distance(start, end)
    IN  IF d = OverflowError THEN None
        ELSE DubinsPath("LRL", (((3 * PI) \div 2) * R) \div Scale + d, start, end)

compute_rlr(R, start, end) ==
    LET d == distance(start, end)
    IN  IF d = OverflowError THEN None
        ELSE DubinsPath("RLR", (((3 * PI) \div 2) * R) \div Scale + d, start, end)

---------------------------------------------------------------------------
(* dubins_paths.py: the selector *)

\* truthiness of an Optional[DubinsPath]
IsPath(p) == p.path_type # "None"

\* the six results in the order the code computes and collects them
AllSix(R, start, end) ==
    << compute_lsl(R, start, end), compute_rsr(R, start, end),
       compute_lsr(R, start, end), compute_rsl(R, start, end),
       compute_lrl(R, start, end), compute_rlr(R, start, end) >>

\* Python's min(paths, key=lambda p: p.total_length): the first minimal item
min_total_length(paths) ==
    paths[CHOOSE i \in 1..Len(paths) :
            /\ \A j \in 1..Len(paths) : paths[i].total_length <= paths[j].total_length
            /\ \A j \in 1..(i - 1) : paths[j].total_length > paths[i].total_length]

\* compute_optimal_path returning the first collected path, ignoring the key
compute_optimal_path_first(R, start, end) ==
    LET paths == SelectSeq(AllSix(R, start, end), IsPath)
    IN  IF paths = <<>>
        THEN LET d == distance(start, end)
             IN  IF d = OverflowError THEN Raised
                 ELSE DubinsPath("LSL", d, start, end)
        ELSE paths[1]

compute_optimal_path(R, start, end) ==
    LET paths == SelectSeq(AllSix(R, start, end), IsPath)
    IN  IF paths = <<>>
        THEN LET d == distance(start, end)
             IN  IF d = OverflowError THEN Raised
                 ELSE DubinsPath("LSL", d, start, end)
        ELSE min_total_length(paths)

---------------------------------------------------------------------------
(* app.py: POST /api/dubins/compute *)

\* the body of the handler's try block: what it returns or the exception
\* that leaves it
DubinsTryBody(req) ==
    IF req.min_radius <= 0
    THEN [raised |-> "HTTPException"]
    ELSE LET optimal_path == compute_optimal_path(req.min_radius, req.start_pose, req.end_pose)
             all_paths == IF req.compute_all
                          THEN SelectSeq(AllSix(req.min_radius, req.start_pose, req.end_pose), IsPath)
                          ELSE None
         IN  IF optimal_path = Raised
             THEN [raised |-> "OverflowError"]
             ELSE [raised |-> "none",
                   value |-> [status |-> 200, optimal_path |-> optimal_path,
                              all_paths |-> all_paths]]

\* the handler with its except clauses: ValueError -> 400, any other
\* Exception (HTTPException and OverflowError are both such) -> 500
compute_dubins_path(req) ==
    LET r == DubinsTryBody(req)
    IN  IF r.raised = "none" THEN r.value
        ELSE IF r.raised = "ValueError" THEN HTTPException(400, "ValueError")
        ELSE HTTPException(500, "Internal server error during Dubins path computation")

---------------------------------------------------------------------------
(* app.py: POST /api/envelope/compute *)

EnvelopePoint(x, y) == [x |-> x, y |-> y]

\* list(range(n)) with reversed order
range_reversed(n) == [k \in 1..n |-> n - k]

\* list(range(n)): Python's indices are 0-based
range(n) == [k \in 1..n |-> k - 1]

\* twice the signed area of the triangle o, a, b (> 0: b is left of o -> a)
Cross(o, a, b) == (a.x - o.x) * (b.y - o.y) - (a.y - o.y) * (b.x - o.x)

\* p lies on the closed segment a-b, given that the three are collinear
Between(a, b, p) ==
    /\ (p.x - a.x) * (p.x - b.x) <= 0
    /\ (p.y - a.y) * (p.y - b.y) <= 0

Collinear(points) ==
    \A i, j, k \in 1..Len(points) : Cross(points[i], points[j], points[k]) = 0

InjectiveSeqs(m, n) ==
    {s \in [1..m -> 1..n] : \A a, b \in 1..m : a # b => s[a] # s[b]}

\* s lists the vertices of the convex hull of points counter-clockwise:
\* every other vertex is strictly left of each edge, every other point is
\* left of it or on it
IsCCWHull(points, s) ==
    \A k \in 1..Len(s) :
        LET a == points[s[k]]
            b == points[s[(k % Len(s)) + 1]]
        IN  \A i \in 1..Len(points) :
                \/ i = s[k]
                \/ i = s[(k % Len(s)) + 1]
                \/ Cross(a, b, points[i]) > 0
                \/ /\ \A v \in 1..Len(s) : s[v] # i
                   /\ Cross(a, b, points[i]) = 0
                   /\ Between(a, b, points[i])

\* scipy.spatial.ConvexHull(points).vertices.tolist(): the hull's vertices
\* counter-clockwise, as 0-based indices into points.  Which vertex comes
\* first (and which of two coincident points is listed) is Qhull's choice:
\* the set holds every admissible list.  Qhull raises QhullError on
\* degenerate input (all points collinear): the set is then empty.
ConvexHull(points) ==
    IF Collinear(points) THEN {}
    ELSE { [k \in 1..Len(s) |-> s[k] - 1] :
             s \in { t \in UNION { InjectiveSeqs(m, Len(points)) : m \in 3..Len(points) } :
                       IsCCWHull(points, t) } }

\* the hull index lists the handler may obtain ({} when ConvexHull raises)
HullIndices(points) ==
    IF Len(points) < 3 THEN {range(Len(points))} ELSE ConvexHull(points)

\* the responses the handler may give (one per admissible hull list); any
\* exception inside its try block becomes a 500
compute_flexible_envelope(req) ==
    IF req.disks = <<>>
    THEN {[status |-> 200, envelope_points |-> <<>>, convex_hull_indices |-> <<>>,
           smoothed_curve |-> <<>>]}
    ELSE LET points == [k \in 1..Len(req.disks) |->
                          [x |-> req.disks[k].center.x, y |-> req.disks[k].center.y]]
             hulls == HullIndices(points)
         IN  IF hulls = {}
             THEN {HTTPException(500, "Internal server error: QhullError")}
             ELSE {[status |-> 200,
                    envelope_points |->
                        [k \in 1..Len(h) |->
                            EnvelopePoint(req.disks[h[k] + 1].center.x,
                                          req.disks[h[k] + 1].center.y)],
                    convex_hull_indices |-> h,
                    smoothed_curve |-> <<>>] : h \in hulls}

---------------------------------------------------------------------------
(* Requests *)

Thetas == {0, 1, 2, -1}

Xs == {4 * Scale * k : k \in 0..MaxX}

Ys == {4 * Scale * k : k \in 0..MaxY} \cup {TieY}

Radii == {Scale * r : r \in -1..MaxRadius}

StartPoses == {Pose2D(x, y, q) : x \in Xs, y \in Ys, q \in Thetas}

EndPoses == {Pose2D(x, y, q) : x \in Xs \cup {Huge}, y \in Ys, q \in Thetas}

DubinsPathRequests ==
    [kind : {"dubins"}, start_pose : StartPoses, end_pose : EndPoses,
     min_radius : Radii, compute_all : BOOLEAN]

Disks ==
    {[center |-> Pose2D(x, y, 0), radius |-> 1] : x \in 0..MaxCentre, y \in 0..MaxCentre}

FlexibleEnvelopeRequests ==
    {[kind |-> "envelope", disks |-> ds] : ds \in UNION {[1..n -> Disks] : n \in 0..MaxDisks}}

---------------------------------------------------------------------------
(* The state machine *)

Init ==
    /\ request \in DubinsPathRequests \cup FlexibleEnvelopeRequests
    /\ response = NoResponse

ComputeDubinsPath ==
    /\ request.kind = "dubins"
    /\ response = NoResponse
    /\ response' = compute_dubins_path(request)
    /\ UNCHANGED request

ComputeFlexibleEnvelope ==
    /\ request.kind = "envelope"
    /\ response = NoResponse
    /\ response' \in compute_flexible_envelope(request)
    /\ UNCHANGED request

Next == ComputeDubinsPath \/ ComputeFlexibleEnvelope

Spec == Init /\ [][Next]_vars

---------------------------------------------------------------------------
(* Properties *)

DubinsAnswered == request.kind = "dubins" /\ response # NoResponse

DubinsOk == DubinsAnswered /\ response.status = 200

EnvelopeAnswered == request.kind = "envelope" /\ response # NoResponse

\* the paths of the families that report feasible for the request, taken
\* from the synthesizers one by one
FeasiblePaths ==
    {p \in { compute_lsl(request.min_radius, request.start_pose, request.end_pose),
             compute_rsr(request.min_radius, request.start_pose, request.end_pose),
             compute_lsr(request.min_radius, request.start_pose, request.end_pose),
             compute_rsl(request.min_radius, request.start_pose, request.end_pose),
             compute_lrl(request.min_radius, request.start_pose, request.end_pose),
             compute_rlr(request.min_radius, request.start_pose, request.end_pose) } :
        p # None}

\* the feasible paths of minimum total length
TiedPaths ==
    {p \in FeasiblePaths : \A o \in FeasiblePaths : p.total_length <= o.total_length}

\* position of a family name in lexicographic order
LexRank(name) ==
    CASE name = "LRL" -> 1 [] name = "LSL" -> 2 [] name = "LSR" -> 3
      [] name = "RLR" -> 4 [] name = "RSL" -> 5 [] name = "RSR" -> 6

PathTypes(paths) == {paths[k].path_type : k \in 1..Len(paths)}

RECURSIVE SumLengths(_)
SumLengths(segments) ==
    IF segments = <<>> THEN 0
    ELSE Head(segments).length + SumLengths(Tail(segments))

\* C1: a path query with min_radius <= 0 is answered with the client error
\* 400 "min_radius must be positive": no path, and never a 500.
C1_NonPositiveRadiusIs400 ==
    (DubinsAnswered /\ request.min_radius <= 0) =>
        /\ response.status = 400
        /\ response.detail = "min_radius must be positive"

\* C2: the path compute_optimal_path returns is the path of a family that
\* reported feasible, and no feasible family's path is shorter.
C2_OptimalIsShortestFeasible ==
    DubinsOk =>
        /\ response.optimal_path \in FeasiblePaths
        /\ \A p \in FeasiblePaths :
               response.optimal_path.total_length <= p.total_length

\* C2 witness: a path was returned although an earlier-collected family
\* (LSL) is feasible and longer.
C2_Witness ==
    /\ DubinsOk
    /\ response.optimal_path.path_type = "LSR"
    /\ \E p \in FeasiblePaths :
           p.path_type = "LSL" /\ p.total_length > response.optimal_path.total_length

\* C3: when two or more feasible families share the minimum total length,
\* the returned path is that of the lexicographically first tied family.
C3_TieBreakLexicographic ==
    (DubinsOk /\ Cardinality(TiedPaths) >= 2) =>
        \A p \in TiedPaths :
            LexRank(response.optimal_path.path_type) <= LexRank(p.path_type)

\* C4: when no family is feasible, the answer is the straight-line distance
\* as a result whose family tag is none of the six.
C4_FallbackIsTagged ==
    (DubinsAnswered /\ request.min_radius > 0 /\ FeasiblePaths = {}) =>
        /\ response.status = 200
        /\ response.optimal_path.path_type \notin Families
        /\ response.optimal_path.total_length =
               distance(request.start_pose, request.end_pose)

\* C5: LSL and RSR are feasible whatever the distance between their turning
\* circles: both are among the paths of every answered compute_all query.
C5_SameSideAlwaysFeasible ==
    (DubinsOk /\ request.compute_all) =>
        {"LSL", "RSR"} \subseteq PathTypes(response.all_paths)

\* C6: identical start and end poses give an optimal path of length 0.
C6_SamePoseZeroLength ==
    (DubinsOk /\ request.start_pose = request.end_pose) =>
        response.optimal_path.total_length = 0

\* the scenario start = (0,0,0), end = (0,4,0), R = 1
C7_Scenario ==
    /\ request.kind = "dubins"
    /\ request.start_pose = Pose2D(0, 0, 0)
    /\ request.end_pose = Pose2D(0, 4 * Scale, 0)
    /\ request.min_radius = Scale

\* C7: in the scenario LSL and RSR are both feasible and the optimal length
\* is strictly between 4 and 4 + 2*pi*R.
C7_LateralOffsetScenario ==
    (C7_Scenario /\ response # NoResponse) =>
        /\ response.status = 200
        /\ compute_lsl(request.min_radius, request.start_pose, request.end_pose) # None
        /\ compute_rsr(request.min_radius, request.start_pose, request.end_pose) # None
        /\ request.compute_all => {"LSL", "RSR"} \subseteq PathTypes(response.all_paths)
        /\ response.optimal_path.total_length > 4 * Scale
        /\ response.optimal_path.total_length <
               4 * Scale + (2 * PI * request.min_radius) \div Scale

\* C7 witness: the scenario has been answered, all families listed.
C7_Witness ==
    C7_Scenario /\ request.compute_all /\ response # NoResponse

\* the request's disk centres are all on one line
AllCollinear ==
    \A i, j, k \in 1..Len(request.disks) :
        Cross(request.disks[i].center, request.disks[j].center,
              request.disks[k].center) = 0

\* C8: three or more disks with collinear centres give, without error, a
\* hull of two points, no point twice and every centre between the two.
C8_CollinearGivesTwoExtremes ==
    (EnvelopeAnswered /\ Len(request.disks) >= 3 /\ AllCollinear) =>
        /\ response.status = 200
        /\ Len(response.envelope_points) = 2
        /\ response.envelope_points[1] # response.envelope_points[2]
        /\ \A k \in 1..Len(request.disks) :
               Between(response.envelope_points[1], response.envelope_points[2],
                       request.disks[k].center)

\* C9: for 0, 1 or 2 disks the hull indices are 0..n-1 in input order and
\* hull point k is the centre of the input disk at position hull_indices[k].
C9_SmallInputsKeepInputOrder ==
    (EnvelopeAnswered /\ Len(request.disks) <= 2) =>
        /\ response.status = 200
        /\ Len(response.convex_hull_indices) = Len(request.disks)
        /\ \A k \in 1..Len(request.disks) : response.convex_hull_indices[k] = k - 1
        /\ Len(response.envelope_points) = Len(request.disks)
        /\ \A k \in 1..Len(request.disks) :
               /\ response.envelope_points[k].x = request.disks[k].center.x
               /\ response.envelope_points[k].y = request.disks[k].center.y

\* C9 witness: two disks with different centres have been answered.
C9_Witness ==
    /\ EnvelopeAnswered
    /\ Len(request.disks) = 2
    /\ request.disks[1].center # request.disks[2].center
    /\ response.status = 200

\* C10: a returned path has exactly 3 segments whose lengths sum to its
\* total_length.
C10_ThreeSegmentsSumToTotal ==
    DubinsOk =>
        /\ Len(response.optimal_path.segments) = 3
        /\ SumLengths(response.optimal_path.segments) =
               response.optimal_path.total_length

====
